---- MODULE Spec2Model ----
(***************************************************************************)
(* planit: a workflow described as a tree of Step / Chain / Parallel       *)
(* nodes, submitted to a batch scheduler with afterok dependencies         *)
(* (Plan.submit) and waited for with one thread per Parallel branch        *)
(* (Plan.wait).  Modelled from src/src/planit/planit.py.                   *)
(***************************************************************************)
EXTENDS Integers, Sequences, FiniteSets, TLC

VARIABLES
    root,        \* Plan.root: the node tree (fixed after construction)
    slurm_args,  \* Step.slurm_args: path of a Step -> name of its descriptor object
    descs,       \* the descriptor objects (SlurmArgs instances and raw dicts)
    job,         \* Step.job: path of a Step -> job id, None before submission
    next_id,     \* the executor's next fresh job id
    submitted,   \* what the executor received, one record per executor.submit call
    all_jobs,    \* the list the last Plan.submit call returned
    walks,       \* the _walk calls of the last Plan.submit call, in order of return
    submits,     \* number of Plan.submit calls made so far
    mainpc,      \* the caller's thread: "idle", or "waiting" inside Plan.wait
    wst,         \* path of a node -> position of the _wait_node call on that node
    werr,        \* path of a node -> the exception its _wait_node call raised
    raised_log,  \* paths of the _wait_node calls that raised, in order of time
    wait_result, \* how the last Plan.wait call ended: "none", "ok" or an exception
    job_state,   \* job id of a job some Step holds -> "pending", "ok" or "failed"
    duration,    \* Step.duration: path of a Step -> seconds, parsed at construction
    estimates,   \* path of a node -> what get_duration() returned for it, when asked
    submit_result, \* how the last Plan.submit call ended, and its executor calls
    ctor_in,     \* the arguments of a Step(...) call
    made         \* what that Step(...) call produced: a Step or an exception

vars == <<root, slurm_args, descs, job, next_id, submitted, all_jobs, walks,
          submits, mainpc, wst, werr, raised_log, wait_result, job_state,
          duration, estimates, submit_result, ctor_in, made>>

submit_vars == <<slurm_args, descs, job, next_id, submitted, all_jobs, walks, submits,
                 submit_result>>
wait_vars == <<mainpc, wst, werr, raised_log, wait_result>>

(***************************************************************************)
(* Bounds of the model.                                                    *)
(***************************************************************************)
\* largest number of nodes of a tree under Spec
MaxNodes == 5
\* largest number of nodes of a tree under SpecWait
MaxWaitNodes == 4
\* largest number of Plan.submit calls on one plan
MaxSubmits == 2

None == 0

\* no exception
NoError == [kind |-> "none", origin |-> <<>>]

Range(f) == { f[i] : i \in DOMAIN f }

(***************************************************************************)
(* Node trees.  A node is a record [type, nodes]; a Step has no children.  *)
(* A node is identified by its path: the child indices leading to it from  *)
(* the root.                                                               *)
(***************************************************************************)
Step == [type |-> "Step", nodes |-> <<>>]

Parallel(nodes) == [type |-> "Parallel", nodes |-> nodes]

Chain(nodes) == [type |-> "Chain", nodes |-> nodes]

\* Forests[n]: the sequences of trees that have n nodes in total
Forests[n \in Nat] ==
    IF n = 0 THEN {<<>>}
    ELSE UNION {
        { <<t>> \o f :
            t \in (IF k = 1 THEN {Step} ELSE {}) \cup
                  { Parallel(g) : g \in Forests[k - 1] } \cup
                  { Chain(g) : g \in Forests[k - 1] },
            f \in Forests[n - k] } : k \in 1..n }

\* the trees of at most n nodes
Trees(n) == UNION { { f[1] : f \in { g \in Forests[k] : Len(g) = 1 } } : k \in 1..n }

RECURSIVE NodeAt(_, _)
NodeAt(node, path) ==
    IF path = <<>> THEN node ELSE NodeAt(node.nodes[Head(path)], Tail(path))

RECURSIVE Paths(_)
Paths(node) ==
    {<<>>} \cup UNION { { <<i>> \o p : p \in Paths(node.nodes[i]) } :
                        i \in 1..Len(node.nodes) }

StepPaths(node) == { p \in Paths(node) : NodeAt(node, p).type = "Step" }

IsPrefix(p, q) == Len(p) <= Len(q) /\ SubSeq(q, 1, Len(p)) = p

\* the Steps in the subtree at path p
StepsUnder(node, p) == { q \in StepPaths(node) : IsPrefix(p, q) }

(***************************************************************************)
(* Time strings.  A string is the sequence of its characters.              *)
(***************************************************************************)
DigitChars == <<"0", "1", "2", "3", "4", "5", "6", "7", "8", "9">>

\* a number below 100 written with two digits, and with as few as it takes
Pad2(n) == <<DigitChars[(n \div 10) + 1], DigitChars[(n % 10) + 1]>>

Plain(n) == IF n < 10 THEN <<DigitChars[n + 1]>> ELSE Pad2(n)

\* 'HH:MM:SS', 'MM:SS' and 'days-HH:MM:SS' as a user writes them
TimeHMS(h, m, sec) == Pad2(h) \o <<":">> \o Pad2(m) \o <<":">> \o Pad2(sec)

TimeMS(m, sec) == Pad2(m) \o <<":">> \o Pad2(sec)

TimeDHMS(d, h, m, sec) == Plain(d) \o <<"-">> \o TimeHMS(h, m, sec)

(***************************************************************************)
(* Resource-request descriptors.  A dict is modelled as a function from    *)
(* its keys; a string that is a ':'-separated list as the sequence of its  *)
(* fields.  A descriptor object is a SlurmArgs instance (its               *)
(* additional_params map) or a raw dict (with or without the nested        *)
(* "slurm_additional_parameters" map, which is an object of its own).      *)
(* has_time says that a raw dict has the key "slurm_time"; time is the     *)
(* str() of the time value; fields are the SlurmArgs fields that are set   *)
(* and go into the additional parameters.                                  *)
(***************************************************************************)
EmptyMap == [k \in {} |-> <<>>]

Put(m, k, v) == [x \in DOMAIN m \cup {k} |-> IF x = k THEN v ELSE m[x]]

\* m.update(other)
Update(m, other) ==
    [k \in DOMAIN m \cup DOMAIN other |-> IF k \in DOMAIN other THEN other[k] ELSE m[k]]

DescNames == {"ARGS", "RAW", "RAW_NESTED"}

\* two SlurmArgs with additional_params: ARGS_EXT has account="proj" and
\* additional_params={"qos": "high"}, ARGS_DEP has
\* additional_params={"dependency": "singleton"}
ExtNames == {"ARGS_EXT", "ARGS_DEP"}

\* the descriptor objects as the user built them
InitDescs ==
    [d \in DescNames \cup ExtNames |->
        CASE d = "ARGS" ->
               [kind |-> "SlurmArgs", has_additional |-> TRUE, additional |-> EmptyMap,
                has_time |-> TRUE, time |-> TimeHMS(1, 0, 0), fields |-> EmptyMap]
          [] d = "RAW" ->
               [kind |-> "dict", has_additional |-> FALSE, additional |-> EmptyMap,
                has_time |-> TRUE, time |-> TimeMS(45, 0), fields |-> EmptyMap]
          [] d = "RAW_NESTED" ->
               [kind |-> "dict", has_additional |-> TRUE,
                additional |-> Put(EmptyMap, "account", <<"my-account">>),
                has_time |-> TRUE, time |-> TimeDHMS(2, 12, 0, 0), fields |-> EmptyMap]
          [] d = "ARGS_EXT" ->
               [kind |-> "SlurmArgs", has_additional |-> TRUE,
                additional |-> Put(EmptyMap, "qos", <<"high">>),
                has_time |-> TRUE, time |-> TimeHMS(1, 0, 0),
                fields |-> Put(EmptyMap, "account", <<"proj">>)]
          [] d = "ARGS_DEP" ->
               [kind |-> "SlurmArgs", has_additional |-> TRUE,
                additional |-> Put(EmptyMap, "dependency", <<"singleton">>),
                has_time |-> TRUE, time |-> TimeHMS(1, 0, 0), fields |-> EmptyMap]]

\* SlurmArgs.to_submitit_dict: a fresh "additional" map of the fields that are
\* set, updated with additional_params, and present in the result only when
\* it is not empty
to_submitit_dict(d) ==
    LET additional == Update(d.fields, d.additional)
    IN [has_additional |-> additional # EmptyMap,
        additional |-> additional,
        shared |-> FALSE]

\* Step._to_submitit_dict: for a raw dict a shallow copy, so the nested map of
\* the result (when present) is the very object the descriptor holds
_to_submitit_dict(d) ==
    IF d.kind = "SlurmArgs" THEN to_submitit_dict(d)
    ELSE [has_additional |-> d.has_additional,
          additional |-> d.additional,
          shared |-> d.has_additional]

\* [str(j.job_id) for j in parent_jobs]
parent_ids_of(parent_jobs) == [i \in 1..Len(parent_jobs) |-> ToString(parent_jobs[i])]

\* f"afterok:{':'.join(parent_ids)}"
dep_str_of(parent_ids) == <<"afterok">> \o parent_ids

(***************************************************************************)
(* _parse_slurm_time and Step.__init__.  A call returns [status, ...]:     *)
(* status "ok" with the value, or the name of the exception with its       *)
(* message (the fixed text and the string put into it).                    *)
(***************************************************************************)
\* time_str.count(c)
Count(str, c) == Cardinality({ i \in DOMAIN str : str[i] = c })

\* str.split(c)
RECURSIVE Split(_, _)
Split(str, c) ==
    IF \A i \in DOMAIN str : str[i] # c THEN <<str>>
    ELSE LET k == CHOOSE i \in DOMAIN str :
                      str[i] = c /\ \A j \in 1..(i - 1) : str[j] # c
         IN <<SubSeq(str, 1, k - 1)>> \o Split(SubSeq(str, k + 1, Len(str)), c)

IsDigits(str) == \A i \in DOMAIN str : \E d \in DOMAIN DigitChars : DigitChars[d] = str[i]

DigitValue(c) == (CHOOSE d \in DOMAIN DigitChars : DigitChars[d] = c) - 1

\* the number a string of digits denotes
RECURSIVE Number(_)
Number(str) ==
    IF str = <<>> THEN 0
    ELSE 10 * Number(SubSeq(str, 1, Len(str) - 1)) + DigitValue(str[Len(str)])

\* str.strip() of blanks
RECURSIVE Strip(_)
Strip(str) ==
    IF str # <<>> /\ Head(str) = " " THEN Strip(Tail(str))
    ELSE IF str # <<>> /\ str[Len(str)] = " " THEN Strip(SubSeq(str, 1, Len(str) - 1))
    ELSE str

\* int(days): blanks around the number are dropped, a sign may lead it and
\* single underscores may group its digits; anything else is a ValueError
int(str) ==
    LET stripped == Strip(str)
        signed == stripped # <<>> /\ stripped[1] \in {"+", "-"}
        body == IF signed THEN Tail(stripped) ELSE stripped
        grouped == /\ body # <<>>
                   /\ body[1] # "_"
                   /\ body[Len(body)] # "_"
                   /\ \A i \in 1..(Len(body) - 1) : ~(body[i] = "_" /\ body[i + 1] = "_")
        digits == SelectSeq(body, LAMBDA c : c # "_")
    IN IF grouped /\ IsDigits(digits)
       THEN [status |-> "ok",
             value |-> IF signed /\ stripped[1] = "-" THEN 0 - Number(digits)
                       ELSE Number(digits)]
       ELSE [status |-> "ValueError", value |-> 0]

\* datetime.strptime(str, fmt) for fmt "%H:%M:%S" (limits <<23, 59, 61>>) and
\* "%M:%S" (limits <<59, 61>>): each field is one or two digits within its
\* limit, and datetime takes no second above 59
strptime(str, limits) ==
    LET parts == Split(str, ":")
        fits == /\ Len(parts) = Len(limits)
                /\ \A i \in DOMAIN parts :
                      /\ Len(parts[i]) \in {1, 2}
                      /\ IsDigits(parts[i])
                      /\ Number(parts[i]) <= limits[i]
        n == Len(limits)
    IN IF fits /\ Number(parts[n]) <= 59
       THEN [status |-> "ok",
             hour |-> IF n = 3 THEN Number(parts[1]) ELSE 0,
             minute |-> Number(parts[n - 1]),
             second |-> Number(parts[n])]
       ELSE [status |-> "ValueError", hour |-> 0, minute |-> 0, second |-> 0]

\* datetime.timedelta(days=, hours=, minutes=, seconds=), in seconds
timedelta(days, hours, minutes, seconds) ==
    days * 86400 + hours * 3600 + minutes * 60 + seconds

NoMessage == [text |-> "", arg |-> <<>>]

CouldNotParse(time_str) ==
    [status |-> "ValueError", seconds |-> 0,
     message |-> [text |-> "Could not parse time", arg |-> time_str]]

\* _parse_slurm_time without "days=int(days)"
_parse_slurm_time_drops_days(time_str) ==
    IF Count(time_str, "-") > 0
    THEN IF Len(Split(time_str, "-")) # 2 THEN CouldNotParse(time_str)
         ELSE LET days == Split(time_str, "-")[1]
                  t == strptime(Split(time_str, "-")[2], <<23, 59, 61>>)
              IN IF t.status # "ok" \/ int(days).status # "ok"
                 THEN CouldNotParse(time_str)
                 ELSE [status |-> "ok", message |-> NoMessage,
                       seconds |-> timedelta(0, t.hour, t.minute, t.second)]
    ELSE IF Count(time_str, ":") \in {1, 2}
    THEN LET t == strptime(time_str,
                    IF Count(time_str, ":") = 2 THEN <<23, 59, 61>> ELSE <<59, 61>>)
         IN IF t.status # "ok" THEN CouldNotParse(time_str)
            ELSE [status |-> "ok", message |-> NoMessage,
                  seconds |-> timedelta(0, t.hour, t.minute, t.second)]
    ELSE CouldNotParse(time_str)

\* _parse_slurm_time: every ValueError of the body is raised again as
\* ValueError(f"Could not parse time '{time_str}'...")
_parse_slurm_time(time_str) ==
    IF Count(time_str, "-") > 0
    THEN IF Len(Split(time_str, "-")) # 2 THEN CouldNotParse(time_str)
         ELSE LET days == Split(time_str, "-")[1]
                  t == strptime(Split(time_str, "-")[2], <<23, 59, 61>>)
              IN IF t.status # "ok" \/ int(days).status # "ok"
                 THEN CouldNotParse(time_str)
                 ELSE [status |-> "ok", message |-> NoMessage,
                       seconds |-> timedelta(int(days).value, t.hour, t.minute, t.second)]
    ELSE IF Count(time_str, ":") \in {1, 2}
    THEN LET t == strptime(time_str,
                    IF Count(time_str, ":") = 2 THEN <<23, 59, 61>> ELSE <<59, 61>>)
         IN IF t.status # "ok" THEN CouldNotParse(time_str)
            ELSE [status |-> "ok", message |-> NoMessage,
                  seconds |-> timedelta(0, t.hour, t.minute, t.second)]
    ELSE CouldNotParse(time_str)

\* Step._get_time: the time of a SlurmArgs, str() of the "slurm_time" of a dict;
\* anything else has no .get
_get_time(name, sargs) ==
    IF sargs.kind = "SlurmArgs"
    THEN [status |-> "ok", time |-> sargs.time,
          message |-> NoMessage]
    ELSE IF sargs.kind = "dict"
    THEN IF sargs.has_time
         THEN [status |-> "ok", time |-> sargs.time,
               message |-> NoMessage]
         ELSE [status |-> "ValueError", time |-> <<>>,
               message |-> [text |-> "raw dict must include 'slurm_time'", arg |-> name]]
    ELSE [status |-> "AttributeError", time |-> <<>>,
          message |-> [text |-> "object has no attribute 'get'", arg |-> <<>>]]

\* the duration Step.__init__ stores for a Step whose construction succeeded
StepDuration(sargs) == _parse_slurm_time(_get_time(<<>>, sargs).time).seconds

\* Step.__init__(name, func, slurm_args, /, *args, **kwargs) called with the
\* positional arguments "positional" and the keyword arguments "kwargs": the
\* first three positional arguments are bound to name, func and slurm_args in
\* this order, the others are args.  The result is [status, message, step]:
\* step holds the new Step, or nothing when the constructor raised.
__init__(positional, kwargs) ==
    LET name == positional[1]
        func == positional[2]
        sargs == positional[3]
        args == SubSeq(positional, 4, Len(positional))
        t == _get_time(name, sargs)
        d == _parse_slurm_time(t.time)
    IN IF t.status # "ok"
       THEN [status |-> t.status, message |-> t.message, step |-> <<>>]
       ELSE IF d.status # "ok"
       THEN [status |-> d.status, message |-> d.message, step |-> <<>>]
       ELSE [status |-> "ok", message |-> NoMessage,
             step |-> <<[name |-> name, func |-> func, slurm_args |-> sargs,
                         args |-> args, kwargs |-> kwargs, job |-> None,
                         duration |-> d.seconds]>>]

(***************************************************************************)
(* get_duration, in seconds.                                               *)
(***************************************************************************)
\* sum(values, datetime.timedelta(0)) of Chain.get_duration
RECURSIVE ChainDuration(_)
ChainDuration(values) ==
    IF values = <<>> THEN 0 ELSE Head(values) + ChainDuration(Tail(values))

\* Parallel.get_duration that adds the children up
ParallelDurationSums(values) == ChainDuration(values)

\* max(values, default=datetime.timedelta(0)) of Parallel.get_duration
ParallelDuration(values) ==
    IF values = <<>> THEN 0
    ELSE CHOOSE v \in Range(values) : \A w \in Range(values) : v >= w

\* node.get_duration() for the node at path
RECURSIVE get_duration(_, _)
get_duration(node, path) ==
    LET values == [i \in 1..Len(node.nodes) |->
                      get_duration(node.nodes[i], path \o <<i>>)]
    IN CASE node.type = "Step" -> duration[path]
         [] node.type = "Parallel" -> ParallelDuration(values)
         [] node.type = "Chain" -> ChainDuration(values)

(***************************************************************************)
(* Plan.submit.  The traversal threads a record st through the calls:      *)
(*   job, descs, next_id, submitted, all_jobs, walks  (as the variables)   *)
(*   and call, the number of this Plan.submit call.                        *)
(* Every _walk returns [st, jobs]: the new state and the returned list.    *)
(* The executor is the scheduler's client and may raise: st.fail_at is the *)
(* executor call of this Plan.submit that raises (0: none does), st.calls  *)
(* counts the executor calls made, and st.raised says that the exception   *)
(* is on its way out through the _walk calls.                              *)
(***************************************************************************)
\* WalkStep without "node.job = job"
WalkStepNoStore(path, parent_jobs, st, args) ==
    LET parent_ids == parent_ids_of(parent_jobs)
        d == st.descs[args[path]]
        params == _to_submitit_dict(d)
        nested == IF params.has_additional THEN params.additional ELSE EmptyMap
        with_dep == Put(nested, "dependency", dep_str_of(parent_ids))
        sent == IF parent_ids # <<>>
                THEN [has_additional |-> TRUE, additional |-> with_dep]
                ELSE [has_additional |-> params.has_additional,
                      additional |-> params.additional]
        descs1 == IF parent_ids # <<>> /\ params.shared
                  THEN [st.descs EXCEPT ![args[path]].additional = with_dep]
                  ELSE st.descs
        id == st.next_id
    IN IF st.calls + 1 = st.fail_at
       THEN [st |-> [st EXCEPT !.descs = descs1, !.calls = @ + 1, !.raised = TRUE],
             jobs |-> <<>>]
       ELSE [st |-> [st EXCEPT
                  !.descs = descs1,
                  !.calls = @ + 1,
                  !.next_id = id + 1,
                  !.submitted = Append(st.submitted,
                      [call |-> st.call, step |-> path, parent_jobs |-> parent_jobs,
                       params |-> sent, job_id |-> id]),
                  !.all_jobs = Append(st.all_jobs, id)],
             jobs |-> <<id>>]

\* the Step branch of _walk
WalkStep(path, parent_jobs, st, args) ==
    LET parent_ids == parent_ids_of(parent_jobs)
        d == st.descs[args[path]]
        params == _to_submitit_dict(d)
        nested == IF params.has_additional THEN params.additional ELSE EmptyMap
        with_dep == Put(nested, "dependency", dep_str_of(parent_ids))
        sent == IF parent_ids # <<>>
                THEN [has_additional |-> TRUE, additional |-> with_dep]
                ELSE [has_additional |-> params.has_additional,
                      additional |-> params.additional]
        descs1 == IF parent_ids # <<>> /\ params.shared
                  THEN [st.descs EXCEPT ![args[path]].additional = with_dep]
                  ELSE st.descs
        id == st.next_id
    IN IF st.calls + 1 = st.fail_at
       THEN [st |-> [st EXCEPT !.descs = descs1, !.calls = @ + 1, !.raised = TRUE],
             jobs |-> <<>>]
       ELSE [st |-> [st EXCEPT
                  !.descs = descs1,
                  !.calls = @ + 1,
                  !.job = [st.job EXCEPT ![path] = id],
                  !.next_id = id + 1,
                  !.submitted = Append(st.submitted,
                      [call |-> st.call, step |-> path, parent_jobs |-> parent_jobs,
                       params |-> sent, job_id |-> id]),
                  !.all_jobs = Append(st.all_jobs, id)],
             jobs |-> <<id>>]

RECURSIVE _walk(_, _, _, _, _)
RECURSIVE WalkParallel(_, _, _, _, _, _, _)
RECURSIVE WalkChain(_, _, _, _, _, _)

\* the Parallel branch: for n in node.nodes: results.extend(_walk(n, parent_jobs))
WalkParallel(nodes, i, path, parent_jobs, results, st, args) ==
    IF i > Len(nodes) THEN [st |-> st, jobs |-> results]
    ELSE LET r == _walk(nodes[i], path \o <<i>>, parent_jobs, st, args)
         IN WalkParallel(nodes, i + 1, path, parent_jobs, results \o r.jobs, r.st, args)

\* WalkChain with "current_deps = current_deps + _walk(n, current_deps)"
RECURSIVE WalkChainExtend(_, _, _, _, _, _)
WalkChainExtend(nodes, i, path, current_deps, st, args) ==
    IF i > Len(nodes) THEN [st |-> st, jobs |-> current_deps]
    ELSE LET r == _walk(nodes[i], path \o <<i>>, current_deps, st, args)
         IN WalkChainExtend(nodes, i + 1, path, current_deps \o r.jobs, r.st, args)

\* the Chain branch: for n in node.nodes: current_deps = _walk(n, current_deps)
WalkChain(nodes, i, path, current_deps, st, args) ==
    IF i > Len(nodes) THEN [st |-> st, jobs |-> current_deps]
    ELSE LET r == _walk(nodes[i], path \o <<i>>, current_deps, st, args)
         IN WalkChain(nodes, i + 1, path, r.jobs, r.st, args)

_walk(node, path, parent_jobs, st, args) ==
    IF st.raised THEN [st |-> st, jobs |-> <<>>]
    ELSE
    LET r == CASE node.type = "Step" -> WalkStep(path, parent_jobs, st, args)
               [] node.type = "Parallel" ->
                    WalkParallel(node.nodes, 1, path, parent_jobs, <<>>, st, args)
               [] node.type = "Chain" ->
                    WalkChain(node.nodes, 1, path, parent_jobs, st, args)
    IN IF r.st.raised THEN r
       ELSE [st |-> [r.st EXCEPT !.walks = Append(r.st.walks,
                      [node |-> path, parent_jobs |-> parent_jobs, result |-> r.jobs])],
             jobs |-> r.jobs]

\* Plan.submit: all_jobs = []; _walk(self.root, []); return all_jobs
submit(st0, tree, args) ==
    _walk(tree, <<>>, <<>>, [st0 EXCEPT !.all_jobs = <<>>, !.walks = <<>>], args).st

SubmitState ==
    [job |-> job, descs |-> descs, next_id |-> next_id, submitted |-> submitted,
     all_jobs |-> all_jobs, walks |-> walks, call |-> submits + 1,
     calls |-> 0, fail_at |-> 0, raised |-> FALSE]

\* the state right after the plan was built, for the trees of at most n nodes
\* whose Steps use the descriptor objects named in names
InitPlan(n, names) ==
    /\ root \in Trees(n)
    /\ slurm_args \in [StepPaths(root) -> names]
    /\ descs = [d \in names |-> InitDescs[d]]
    /\ job = [p \in StepPaths(root) |-> None]
    /\ next_id = 1
    /\ submitted = <<>>
    /\ all_jobs = <<>>
    /\ walks = <<>>
    /\ submits = 0
    /\ mainpc = "idle"
    /\ wst = [p \in Paths(root) |-> "idle"]
    /\ werr = [p \in Paths(root) |-> NoError]
    /\ raised_log = <<>>
    /\ wait_result = "none"
    /\ job_state = [j \in {} |-> "pending"]
    /\ duration = [p \in StepPaths(root) |-> StepDuration(descs[slurm_args[p]])]
    /\ estimates = <<>>
    /\ submit_result = [raised |-> FALSE, calls |-> 0, fail_at |-> 0]
    /\ ctor_in = [positional |-> <<>>, kwargs |-> EmptyMap]
    /\ made = [status |-> "none", message |-> NoMessage, step |-> <<>>]

Init == InitPlan(MaxNodes, DescNames)

\* one call of Plan.submit(executor), from the caller's thread, in which the
\* executor call number fail_at raises (0: none)
SubmitCall(fail_at) ==
    /\ mainpc = "idle"
    /\ submits < MaxSubmits
    /\ \E st \in {submit([SubmitState EXCEPT !.fail_at = fail_at], root, slurm_args)} :
          /\ job' = st.job
          /\ descs' = st.descs
          /\ next_id' = st.next_id
          /\ submitted' = st.submitted
          /\ all_jobs' = IF st.raised THEN all_jobs ELSE st.all_jobs
          /\ walks' = st.walks
          /\ submit_result' = [raised |-> st.raised, calls |-> st.calls,
                               fail_at |-> fail_at]
          /\ job_state' = [j \in Range(st.job) \ {None} |->
                              IF j \in DOMAIN job_state THEN job_state[j] ELSE "pending"]
    /\ submits' = submits + 1
    /\ wst' = [p \in Paths(root) |-> "idle"]
    /\ werr' = [p \in Paths(root) |-> NoError]
    /\ raised_log' = <<>>
    /\ wait_result' = "none"
    /\ UNCHANGED <<root, duration, estimates, ctor_in, made, slurm_args, mainpc>>

\* a Plan.submit call in which the executor does not raise
Submit == SubmitCall(0)

Next == Submit

Spec == Init /\ [][Next]_vars

(***************************************************************************)
(* Plan.wait.  The caller's thread runs _wait_node on the root; a Parallel *)
(* runs _wait_node on each child in a thread of its own.  There is one     *)
(* _wait_node call per node and Plan.wait call, so the position of the     *)
(* call on the node at path p is wst[p]:                                   *)
(*   "idle"     not called (yet)                                           *)
(*   "entered"  called; a Chain stays here while it loops over its nodes   *)
(*   "blocked"  a Step inside node.job.result()                            *)
(*   "joining"  a Parallel inside wait_futures(futures)                    *)
(*   "returned" returned normally                                          *)
(*   "raised"   left by the exception werr[p]                              *)
(* An exception is [kind, origin]: origin is the path of the call that     *)
(* raised it first, which tells one exception object from another.         *)
(***************************************************************************)
Finished(p) == wst[p] \in {"returned", "raised"}

Kids(p) == { p \o <<i>> : i \in 1..Len(NodeAt(root, p).nodes) }

Raise(p, e) ==
    /\ wst' = [wst EXCEPT ![p] = "raised"]
    /\ werr' = [werr EXCEPT ![p] = e]
    /\ raised_log' = Append(raised_log, p)

\* Plan.wait(): self._wait_node(self.root)
Wait ==
    /\ mainpc = "idle"
    /\ mainpc' = "waiting"
    /\ wst' = [p \in Paths(root) |-> IF p = <<>> THEN "entered" ELSE "idle"]
    /\ werr' = [p \in Paths(root) |-> NoError]
    /\ raised_log' = <<>>
    /\ wait_result' = "none"
    /\ UNCHANGED <<root, duration, estimates, ctor_in, made, job_state>>
    /\ UNCHANGED submit_vars

\* Step: if node.job is None: raise RuntimeError(...), else call node.job.result()
StepWait(p) ==
    /\ NodeAt(root, p).type = "Step"
    /\ wst[p] = "entered"
    /\ IF job[p] = None
       THEN Raise(p, [kind |-> "RuntimeError: has not been submitted yet", origin |-> p])
       ELSE /\ wst' = [wst EXCEPT ![p] = "blocked"]
            /\ UNCHANGED <<werr, raised_log>>
    /\ UNCHANGED <<root, duration, estimates, ctor_in, made, mainpc, wait_result, job_state>>
    /\ UNCHANGED submit_vars

\* Step: node.job.result() returns once the job has succeeded and raises once
\* it has failed
JobResult(p) ==
    /\ NodeAt(root, p).type = "Step"
    /\ wst[p] = "blocked"
    /\ job_state[job[p]] # "pending"
    /\ IF job_state[job[p]] = "ok"
       THEN /\ wst' = [wst EXCEPT ![p] = "returned"]
            /\ UNCHANGED <<werr, raised_log>>
       ELSE Raise(p, [kind |-> "job failed", origin |-> p])
    /\ UNCHANGED <<root, duration, estimates, ctor_in, made, mainpc, wait_result, job_state>>
    /\ UNCHANGED submit_vars

\* Parallel: ThreadPoolExecutor(max_workers=len(node.nodes)) raises ValueError
\* for max_workers = 0; otherwise pool.submit starts one thread per child
ParallelSpawn(p) ==
    /\ NodeAt(root, p).type = "Parallel"
    /\ wst[p] = "entered"
    /\ IF Kids(p) = {}
       THEN Raise(p, [kind |-> "ValueError: max_workers must be greater than 0",
                      origin |-> p])
       ELSE /\ wst' = [q \in Paths(root) |->
                        IF q = p THEN "joining"
                        ELSE IF q \in Kids(p) THEN "entered" ELSE wst[q]]
            /\ UNCHANGED <<werr, raised_log>>
    /\ UNCHANGED <<root, duration, estimates, ctor_in, made, mainpc, wait_result, job_state>>
    /\ UNCHANGED submit_vars

\* JoinOutcome with the exception that was raised first in time
JoinFirstInTime(p) ==
    LET failed == { i \in 1..Len(NodeAt(root, p).nodes) : wst[p \o <<i>>] = "raised" }
        at(i) == CHOOSE k \in DOMAIN raised_log : raised_log[k] = p \o <<i>>
    IN IF failed = {} THEN NoError
       ELSE werr[p \o <<CHOOSE i \in failed : \A j \in failed : at(i) <= at(j)>>]

\* JoinOutcome without the loop over f.result()
JoinIgnoresFailures(p) == NoError

\* Parallel: for f in futures: f.result() -- the exception of the first future,
\* in the order of node.nodes, that holds one; NoError when none does
JoinOutcome(p) ==
    LET failed == { i \in 1..Len(NodeAt(root, p).nodes) : wst[p \o <<i>>] = "raised" }
    IN IF failed = {} THEN NoError
       ELSE werr[p \o <<CHOOSE i \in failed : \A j \in failed : i <= j>>]

\* Parallel: wait_futures(futures) returns when every future is done
ParallelJoin(p) ==
    /\ NodeAt(root, p).type = "Parallel"
    /\ wst[p] = "joining"
    /\ \A q \in Kids(p) : Finished(q)
    /\ IF JoinOutcome(p) = NoError
       THEN /\ wst' = [wst EXCEPT ![p] = "returned"]
            /\ UNCHANGED <<werr, raised_log>>
       ELSE Raise(p, JoinOutcome(p))
    /\ UNCHANGED <<root, duration, estimates, ctor_in, made, mainpc, wait_result, job_state>>
    /\ UNCHANGED submit_vars

\* ChainCursor that steps over a child whose wait raised
ChainCursorSkipsFailed(p) ==
    LET n == Len(NodeAt(root, p).nodes)
        todo == { i \in 1..n : ~Finished(p \o <<i>>) }
    IN IF todo = {} THEN n + 1 ELSE CHOOSE i \in todo : \A j \in todo : i <= j

\* Chain: the position of "for n in node.nodes: self._wait_node(n)": the first
\* child whose call has not returned normally, len + 1 after the last one
ChainCursor(p) ==
    LET n == Len(NodeAt(root, p).nodes)
        todo == { i \in 1..n : wst[p \o <<i>>] # "returned" }
    IN IF todo = {} THEN n + 1 ELSE CHOOSE i \in todo : \A j \in todo : i <= j

\* Chain: call self._wait_node(n) on the next child
ChainCall(p) ==
    /\ NodeAt(root, p).type = "Chain"
    /\ wst[p] = "entered"
    /\ ChainCursor(p) <= Len(NodeAt(root, p).nodes)
    /\ wst[p \o <<ChainCursor(p)>>] = "idle"
    /\ wst' = [wst EXCEPT ![p \o <<ChainCursor(p)>>] = "entered"]
    /\ UNCHANGED <<root, duration, estimates, ctor_in, made, mainpc, werr, raised_log, wait_result, job_state>>
    /\ UNCHANGED submit_vars

\* Chain: the exception of a child's call leaves the loop
ChainRaise(p) ==
    /\ NodeAt(root, p).type = "Chain"
    /\ wst[p] = "entered"
    /\ ChainCursor(p) <= Len(NodeAt(root, p).nodes)
    /\ wst[p \o <<ChainCursor(p)>>] = "raised"
    /\ Raise(p, werr[p \o <<ChainCursor(p)>>])
    /\ UNCHANGED <<root, duration, estimates, ctor_in, made, mainpc, wait_result, job_state>>
    /\ UNCHANGED submit_vars

\* Chain: the loop is over
ChainReturn(p) ==
    /\ NodeAt(root, p).type = "Chain"
    /\ wst[p] = "entered"
    /\ ChainCursor(p) > Len(NodeAt(root, p).nodes)
    /\ wst' = [wst EXCEPT ![p] = "returned"]
    /\ UNCHANGED <<root, duration, estimates, ctor_in, made, mainpc, werr, raised_log, wait_result, job_state>>
    /\ UNCHANGED submit_vars

\* Plan.wait returns, or is left by the exception of _wait_node(self.root)
WaitReturn ==
    /\ mainpc = "waiting"
    /\ Finished(<<>>)
    /\ mainpc' = "idle"
    /\ wait_result' = IF wst[<<>>] = "returned" THEN "ok" ELSE werr[<<>>].kind
    /\ UNCHANGED <<root, duration, estimates, ctor_in, made, wst, werr, raised_log, job_state>>
    /\ UNCHANGED submit_vars

\* the scheduler: a job that a Step holds ends, successfully or not (a job no
\* Step holds any more is not observed by the plan)
JobEnds(j) ==
    /\ j \in Range(job) \ {None}
    /\ job_state[j] = "pending"
    /\ \E outcome \in {"ok", "failed"} : job_state' = [job_state EXCEPT ![j] = outcome]
    /\ UNCHANGED <<root, duration, estimates, ctor_in, made, mainpc, wst, werr, raised_log, wait_result>>
    /\ UNCHANGED submit_vars

InitWait == InitPlan(MaxWaitNodes, {"ARGS"})

NextWait ==
    \/ Submit
    \/ Wait
    \/ WaitReturn
    \/ \E p \in Paths(root) : StepWait(p)
    \/ \E p \in Paths(root) : JobResult(p)
    \/ \E p \in Paths(root) : ParallelSpawn(p)
    \/ \E p \in Paths(root) : ParallelJoin(p)
    \/ \E p \in Paths(root) : ChainCall(p)
    \/ \E p \in Paths(root) : ChainRaise(p)
    \/ \E p \in Paths(root) : ChainReturn(p)
    \/ \E j \in DOMAIN job_state : JobEnds(j)

SpecWait == InitWait /\ [][NextWait]_vars

(***************************************************************************)
(* Reading the record of a Plan.submit call.                               *)
(***************************************************************************)
\* what the executor received for the Step at path p in the last Plan.submit call
Received(p) == { s \in Range(submitted) : s.call = submits /\ s.step = p }

ReceivedFor(p) == CHOOSE s \in Received(p) : TRUE

\* the payload carries a dependency constraint
HasDependency(params) ==
    params.has_additional /\ "dependency" \in DOMAIN params.additional

\* the fields of the payload's dependency constraint, none when it has no constraint
Dependency(params) ==
    IF HasDependency(params) THEN params.additional["dependency"] ELSE <<>>

\* the _walk call on the node at path p in the last Plan.submit call
WalkOf(p) == CHOOSE w \in Range(walks) : w.node = p

Walked(p) == \E w \in Range(walks) : w.node = p

\* the jobs a submitted job names in its dependency constraint
DirectDeps(j) ==
    { k \in 1..(next_id - 1) :
        \E s \in Range(submitted) :
            /\ s.job_id = j
            /\ ToString(k) \in Range(Dependency(s.params)) }

RECURSIVE Ancestors(_)
Ancestors(j) == DirectDeps(j) \cup UNION { Ancestors(k) : k \in DirectDeps(j) \ {j} }

(***************************************************************************)
(* Claims about Plan.submit                                                *)
(***************************************************************************)

\* C1: the payload the scheduler receives for a Step carries a dependency
\* constraint if and only if the Step was walked with a non-empty predecessor
\* list, and then it is "afterok" followed by exactly the identifiers of those
\* predecessors; a Step walked with no predecessors is submitted without a
\* dependency constraint, whatever was submitted before it.
C1_DependencyIffPredecessors ==
    \A s \in Range(submitted) :
        /\ HasDependency(s.params) <=> s.parent_jobs # <<>>
        /\ HasDependency(s.params) =>
              /\ Head(Dependency(s.params)) = "afterok"
              /\ Range(Tail(Dependency(s.params)))
                   = { ToString(j) : j \in Range(s.parent_jobs) }

\* C2: walking a Chain with predecessors P walks the first child with P, each
\* next child with exactly the jobs the walk of the child before it returned,
\* and returns what the walk of the last child returned; an empty Chain
\* returns P.
C2_ChainThreadsPredecessors ==
    \A w \in Range(walks) :
        NodeAt(root, w.node).type = "Chain" =>
            LET n == Len(NodeAt(root, w.node).nodes)
                kid(i) == WalkOf(w.node \o <<i>>)
            IN /\ \A i \in 1..n : Walked(w.node \o <<i>>)
               /\ n = 0 => w.result = w.parent_jobs
               /\ n > 0 => /\ kid(1).parent_jobs = w.parent_jobs
                           /\ w.result = kid(n).result
               /\ \A i \in 1..(n - 1) : kid(i + 1).parent_jobs = kid(i).result

\* a Chain of two or more children was walked with predecessors, and its first
\* child returned other jobs than those predecessors
C2_Witness ==
    \E w \in Range(walks) :
        /\ NodeAt(root, w.node).type = "Chain"
        /\ Len(NodeAt(root, w.node).nodes) >= 2
        /\ w.parent_jobs # <<>>
        /\ WalkOf(w.node \o <<1>>).result # w.parent_jobs
        /\ w.result # w.parent_jobs

\* C3: walking a Parallel with predecessors P walks every child with P and
\* returns the union of the children's returned jobs; so its Step children all
\* carry the same dependency constraint, and no job of one branch is named in
\* the dependency constraint of a job of another branch.
C3_ParallelSharesPredecessors ==
    \A w \in Range(walks) :
        NodeAt(root, w.node).type = "Parallel" =>
            LET n == Len(NodeAt(root, w.node).nodes)
                kid(i) == WalkOf(w.node \o <<i>>)
                isStep(i) == NodeAt(root, w.node \o <<i>>).type = "Step"
            IN /\ \A i \in 1..n : Walked(w.node \o <<i>>) /\ kid(i).parent_jobs = w.parent_jobs
               /\ Range(w.result) = UNION { Range(kid(i).result) : i \in 1..n }
               /\ \A i, j \in 1..n :
                     isStep(i) /\ isStep(j) =>
                        Dependency(ReceivedFor(w.node \o <<i>>).params)
                          = Dependency(ReceivedFor(w.node \o <<j>>).params)
               /\ \A i, j \in 1..n :
                     i # j =>
                        \A a \in StepsUnder(root, w.node \o <<i>>),
                           b \in StepsUnder(root, w.node \o <<j>>) :
                            ToString(job[a]) \notin Range(Dependency(ReceivedFor(b).params))

\* C4: for every Chain of the tree and children i < j of it, every job of a
\* Step under child j depends, directly or through other jobs, on every job of
\* a Step under child i.
C4_ChainOrdersJobs ==
    submits > 0 =>
        \A p \in Paths(root) :
            NodeAt(root, p).type = "Chain" =>
                \A i, j \in 1..Len(NodeAt(root, p).nodes) :
                    i < j =>
                        \A a \in StepsUnder(root, p \o <<i>>),
                           b \in StepsUnder(root, p \o <<j>>) :
                            job[a] \in Ancestors(job[b])

\* C5: one call of Plan.submit makes exactly one executor.submit call for each
\* Step of the tree, and returns a list with exactly one job per Step, the one
\* stored on that Step.
C5_EachStepSubmittedOnce ==
    submits > 0 =>
        /\ \A p \in StepPaths(root) :
              /\ Cardinality({ i \in DOMAIN submitted :
                    submitted[i].call = submits /\ submitted[i].step = p }) = 1
              /\ job[p] # None
              /\ job[p] = ReceivedFor(p).job_id
              /\ Cardinality({ i \in DOMAIN all_jobs : all_jobs[i] = job[p] }) = 1
        /\ Cardinality({ i \in DOMAIN submitted : submitted[i].call = submits })
             = Cardinality(StepPaths(root))
        /\ Len(all_jobs) = Cardinality(StepPaths(root))
        /\ \A p, q \in StepPaths(root) : p # q => job[p] # job[q]

\* a tree of three or more Steps, nested, has been submitted
C5_Witness ==
    /\ submits > 0
    /\ Cardinality(StepPaths(root)) >= 3
    /\ \E p \in StepPaths(root) : Len(p) >= 2

\* C6: a Step's job slot is write-once: once it holds a job, no later
\* operation (a second Plan.submit included) puts another job in it.
C6_JobSlotWriteOnce ==
    [][\A p \in StepPaths(root) : job[p] # None => job'[p] = job[p]]_vars

(***************************************************************************)
(* Claims about Plan.wait                                                  *)
(***************************************************************************)
NotSubmitted == "RuntimeError: has not been submitted yet"

\* the nodes of the subtree at path p
PathsUnder(p) == { q \in Paths(root) : IsPrefix(p, q) }

\* the children of the node at p whose _wait_node call raised
FailedKids(p) == { i \in 1..Len(NodeAt(root, p).nodes) : wst[p \o <<i>>] = "raised" }

\* when the call on the node at q raised, as a position in time
RaisedAt(q) == CHOOSE k \in DOMAIN raised_log : raised_log[k] = q

\* C7: Plan.wait on a tree that has a Step and no submitted Step ends with the
\* not-submitted error and never blocks in a job's result().
C7_WaitBeforeSubmitFails ==
    (StepPaths(root) # {} /\ \A p \in StepPaths(root) : job[p] = None) =>
        /\ \A p \in Paths(root) : wst[p] # "blocked"
        /\ wait_result \in {"none", NotSubmitted}

\* C8: waiting on a Parallel starts one wait task per child and ends, either
\* way, only after every child's task has ended; when children failed, it
\* fails with the exception of the first failed child in the order of the
\* child list, whatever the order in which they failed.
C8_ParallelWaitsForAll ==
    \A p \in Paths(root) :
        (NodeAt(root, p).type = "Parallel" /\ Kids(p) # {}) =>
            /\ wst[p] = "joining" => \A q \in Kids(p) : wst[q] # "idle"
            /\ Finished(p) => \A q \in Kids(p) : Finished(q)
            /\ (Finished(p) /\ FailedKids(p) = {}) => wst[p] = "returned"
            /\ (Finished(p) /\ FailedKids(p) # {}) =>
                  /\ wst[p] = "raised"
                  /\ \E i \in FailedKids(p) :
                        /\ \A j \in FailedKids(p) : i <= j
                        /\ werr[p] = werr[p \o <<i>>]

\* a Parallel failed with the exception of an earlier child although a later
\* child had failed before it in time
C8_Witness ==
    \E p \in Paths(root) :
        /\ NodeAt(root, p).type = "Parallel"
        /\ wst[p] = "raised"
        /\ \E i, j \in FailedKids(p) :
              /\ i < j
              /\ RaisedAt(p \o <<j>>) < RaisedAt(p \o <<i>>)
              /\ werr[p] = werr[p \o <<i>>]
              /\ werr[p] # werr[p \o <<j>>]

\* C9: when Plan.wait returns normally, result() has been called on the job of
\* every Step of the tree and has returned: every job of the tree succeeded.
C9_WaitReturnsAfterAllJobs ==
    wait_result = "ok" =>
        \A p \in StepPaths(root) :
            /\ job[p] # None
            /\ wst[p] = "returned"
            /\ job_state[job[p]] = "ok"

\* Plan.wait returned normally on a tree with a Parallel of two or more children
C9_Witness ==
    /\ wait_result = "ok"
    /\ \E p \in Paths(root) :
          /\ NodeAt(root, p).type = "Parallel"
          /\ Cardinality(Kids(p)) >= 2
          /\ StepsUnder(root, p) # {}

\* C10: waiting on a Chain waits on its children in list order: nothing under
\* child i+1 is waited on before the wait on child i has returned normally,
\* and when the wait on child i fails the Chain fails with that exception and
\* no later child is waited on.
C10_ChainWaitsInOrder ==
    \A p \in Paths(root) :
        NodeAt(root, p).type = "Chain" =>
            LET n == Len(NodeAt(root, p).nodes)
            IN /\ \A i \in 1..(n - 1) :
                     (\E q \in PathsUnder(p \o <<i + 1>>) : wst[q] # "idle") =>
                         wst[p \o <<i>>] = "returned"
               /\ \A i \in FailedKids(p) :
                     /\ \A j \in (i + 1)..n :
                           \A q \in PathsUnder(p \o <<j>>) : wst[q] = "idle"
                     /\ Finished(p) => wst[p] = "raised" /\ werr[p] = werr[p \o <<i>>]
               /\ wst[p] = "returned" => \A q \in Kids(p) : wst[q] = "returned"

\* a Chain failed with the exception of its second child, after the first had
\* returned, and its third child was never waited on
C10_Witness ==
    \E p \in Paths(root) :
        /\ NodeAt(root, p).type = "Chain"
        /\ Len(NodeAt(root, p).nodes) >= 3
        /\ wst[p \o <<1>>] = "returned"
        /\ wst[p \o <<2>>] = "raised"
        /\ wst[p \o <<3>>] = "idle"
        /\ wst[p] = "raised"
        /\ werr[p] = werr[p \o <<2>>]

\* the Steps of the tree in tree order (depth first, children left to right)
RECURSIVE TreeOrder(_, _)
RECURSIVE TreeOrderOf(_, _, _)
TreeOrderOf(nodes, i, path) ==
    IF i > Len(nodes) THEN <<>>
    ELSE TreeOrder(nodes[i], path \o <<i>>) \o TreeOrderOf(nodes, i + 1, path)

TreeOrder(node, path) ==
    IF node.type = "Step" THEN <<path>> ELSE TreeOrderOf(node.nodes, 1, path)

\* the executor.submit calls of the last Plan.submit call, in order of time
LastCall == SelectSeq(submitted, LAMBDA s : s.call = submits)

\* C18: submission is one sequential depth-first, left-to-right traversal:
\* Steps are submitted and appended to the returned list in tree order, and
\* when a Step is submitted every job named in its dependency constraint has
\* already been submitted in the same Plan.submit call.
C18_TreeOrderAndKnownJobs ==
    submits > 0 =>
        /\ [i \in 1..Len(LastCall) |-> LastCall[i].step] = TreeOrder(root, <<>>)
        /\ [i \in 1..Len(LastCall) |-> LastCall[i].job_id] = all_jobs
        /\ \A i \in 1..Len(LastCall) :
              \A k \in DirectDeps(LastCall[i].job_id) :
                  \E j \in 1..(i - 1) : LastCall[j].job_id = k

\* C20: Plan.submit changes nothing on the node tree except each Step's job
\* slot: every Step's descriptor, the nested additional map of a raw dict and
\* a descriptor shared by several Steps included, has the same content after
\* submit as before.
C20_DescriptorsUnchanged ==
    \A p \in StepPaths(root) : descs[slurm_args[p]] = InitDescs[slurm_args[p]]

\* C17: on a tree in which every Step has been submitted and every job ends
\* successfully, Plan.wait returns normally in the end, whatever the shape of
\* the tree, empty Chains and empty Parallels included.  Stated here is what
\* that rules out: a Plan.wait call that ends with an exception although
\* every Step has a job and no job has failed.
C17_WaitEndsNormally ==
    (\A p \in StepPaths(root) : job[p] # None /\ job_state[job[p]] # "failed") =>
        wait_result \in {"none", "ok"}

(***************************************************************************)
(* Constructing a Step.  SpecStep: Step(...) calls with the resource       *)
(* requests and time strings below, in the argument order of the           *)
(* constructor's signature and in the order the tests and example.py use.  *)
(***************************************************************************)
\* largest number of days written in a time string
MaxDays == 2

DayValues == 0..MaxDays \cup {10}

HourValues == {0, 2, 23}

MinuteValues == {0, 30, 59}

SecondValues == {0, 59}

\* the time strings in one of the three layouts, with in-range fields
ValidTimes ==
    { TimeHMS(h, m, sec) : h \in HourValues, m \in MinuteValues, sec \in SecondValues } \cup
    { TimeMS(m, sec) : m \in MinuteValues, sec \in SecondValues } \cup
    { TimeDHMS(d, h, m, sec) :
        d \in DayValues, h \in HourValues, m \in MinuteValues, sec \in SecondValues }

\* "", "60" (also str(60)), "01:00:00 ", "1:2:3:4", "1-2", "1-2-3",
\* " 2-01:00:00", "2 -01:00:00"
WrongLayout ==
    { <<>>, Pad2(60), TimeHMS(1, 0, 0) \o <<" ">>,
      <<"1", ":", "2", ":", "3", ":", "4">>, <<"1", "-", "2">>,
      <<"1", "-", "2", "-", "3">>,
      <<" ">> \o TimeDHMS(2, 1, 0, 0), <<"2", " ", "-">> \o TimeHMS(1, 0, 0) }

\* "ab:cd:ef", "not-a-time", "x-01:00:00", "1_0-01:00:00"
NonNumeric ==
    { <<"a", "b", ":", "c", "d", ":", "e", "f">>,
      <<"n", "o", "t", "-", "a", "-", "t", "i", "m", "e">>,
      <<"x", "-">> \o TimeHMS(1, 0, 0),
      <<"1", "_", "0", "-">> \o TimeHMS(1, 0, 0) }

\* "24:00:00", "00:60:00", "00:00:60", "60:00", "00:60", "2-24:00:00"
OutOfRange ==
    { TimeHMS(24, 0, 0), TimeHMS(0, 60, 0), TimeHMS(0, 0, 60), TimeMS(60, 0),
      TimeMS(0, 60), TimeDHMS(2, 24, 0, 0) }

\* the time strings that are in none of the three layouts
NotInLayout == WrongLayout \cup NonNumeric \cup OutOfRange

\* SlurmArgs(time=time, partition=...)
SlurmArgsOf(time) ==
    [kind |-> "SlurmArgs", has_additional |-> TRUE, additional |-> EmptyMap,
     has_time |-> TRUE, time |-> time, fields |-> EmptyMap]

\* {"slurm_time": time}; time is the str() of the value, so "60" for 60
RawDictOf(time) ==
    [kind |-> "dict", has_additional |-> FALSE, additional |-> EmptyMap,
     has_time |-> TRUE, time |-> time, fields |-> EmptyMap]

\* {"slurm_partition": "batch"}
RawDictNoTime ==
    [kind |-> "dict", has_additional |-> FALSE, additional |-> EmptyMap,
     has_time |-> FALSE, time |-> <<>>, fields |-> EmptyMap]

Requests ==
    { SlurmArgsOf(t) : t \in ValidTimes \cup NotInLayout } \cup
    { RawDictOf(t) : t \in ValidTimes \cup NotInLayout } \cup { RawDictNoTime }

\* def noop(): pass
noop == [kind |-> "function"]

\* the job's positional and keyword arguments
ExtraArgs == { <<>>, <<1, 2>> }

KwArgs == { EmptyMap, Put(EmptyMap, "lr", 3) }

\* the first Step(...) call of a program:
\* Step("s", noop, R, *extra, **kw) or Step("s", R, noop, *extra, **kw)
NewStep ==
    /\ made.status = "none"
    /\ \E R \in Requests, func_first \in BOOLEAN, extra \in ExtraArgs, kw \in KwArgs :
          LET positional == (IF func_first THEN << <<"s">>, noop, R >>
                             ELSE << <<"s">>, R, noop >>) \o extra
          IN /\ ctor_in' = [positional |-> positional, kwargs |-> kw]
             /\ made' = __init__(positional, kw)
    /\ UNCHANGED <<root, slurm_args, descs, job, next_id, submitted, all_jobs, walks,
                   submits, mainpc, wst, werr, raised_log, wait_result, job_state,
                   duration, estimates, submit_result>>

InitStep == InitPlan(1, {"ARGS"})

NextStep == NewStep

SpecStep == InitStep /\ [][NextStep]_vars

\* a Step(...) call was made with a function second and a resource request third
FuncThenRequest ==
    /\ ctor_in.positional # <<>>
    /\ ctor_in.positional[2].kind = "function"
    /\ ctor_in.positional[3].kind \in {"SlurmArgs", "dict"}

\* a Step(...) call was made with a resource request second and a function third
RequestThenFunc ==
    /\ ctor_in.positional # <<>>
    /\ ctor_in.positional[2].kind \in {"SlurmArgs", "dict"}
    /\ ctor_in.positional[3].kind = "function"

\* the constructor raised ValueError("... <text> ...") with arg in the message,
\* and there is no Step
FailsWith(text, arg) ==
    /\ made.status = "ValueError"
    /\ made.message = [text |-> text, arg |-> arg]
    /\ made.step = <<>>

\* the constructor returned a Step of the given duration
MadeWithDuration(seconds) ==
    /\ made.status = "ok"
    /\ made.step # <<>>
    /\ made.step[1].duration = seconds

\* C13: a time string HH:MM:SS, MM:SS or D-HH:MM:SS with in-range fields is
\* parsed to exactly D*86400 + HH*3600 + MM*60 + SS seconds, absent fields
\* counting as 0.
C13_ParseIsExact ==
    (FuncThenRequest /\ ctor_in.positional[3].has_time) =>
        \A d \in DayValues, h \in HourValues, m \in MinuteValues, sec \in SecondValues :
            LET time == ctor_in.positional[3].time
            IN /\ time = TimeHMS(h, m, sec)
                    => MadeWithDuration(h * 3600 + m * 60 + sec)
               /\ time = TimeMS(m, sec)
                    => MadeWithDuration(m * 60 + sec)
               /\ time = TimeDHMS(d, h, m, sec)
                    => MadeWithDuration(d * 86400 + h * 3600 + m * 60 + sec)

C13_Witness ==
    /\ FuncThenRequest
    /\ ctor_in.positional[3].has_time
    /\ ctor_in.positional[3].time = TimeDHMS(2, 23, 59, 59)
    /\ MadeWithDuration(259199)

\* C14: constructing a Step whose time budget is in none of the three layouts
\* (wrong layout, non-numeric component, out-of-range value, a non-string such
\* as 60 in a raw dict) fails with a parse error that contains the input
\* string, constructing one from a raw dict without the time key fails with an
\* error naming the key, and in both cases there is no Step.
C14_BadTimeBudgetFails ==
    FuncThenRequest =>
        LET R == ctor_in.positional[3]
        IN /\ (R.has_time /\ R.time \in NotInLayout)
                => FailsWith("Could not parse time", R.time)
           /\ (R.kind = "dict" /\ ~R.has_time)
                => FailsWith("raw dict must include 'slurm_time'", ctor_in.positional[1])

\* C16: Step(name, R, f, a1..an, **kw) with a valid R succeeds and yields a
\* Step whose resource request is R, whose callable is f, whose args are
\* (a1..an) and whose kwargs are kw.
C16_RequestBeforeCallable ==
    (/\ RequestThenFunc
     /\ ctor_in.positional[2].has_time
     /\ ctor_in.positional[2].time \in ValidTimes) =>
        /\ made.status = "ok"
        /\ made.step # <<>>
        /\ made.step[1].slurm_args = ctor_in.positional[2]
        /\ made.step[1].func = ctor_in.positional[3]
        /\ made.step[1].args = SubSeq(ctor_in.positional, 4, Len(ctor_in.positional))
        /\ made.step[1].kwargs = ctor_in.kwargs

(***************************************************************************)
(* Plan.describe and the time estimate.  SpecDur: plans whose Steps ask    *)
(* for one hour (ARGS) or 45 minutes (RAW), described and submitted once,  *)
(* as example.py does.                                                     *)
(***************************************************************************)
\* largest number of nodes of a tree under SpecDur
MaxDurNodes == 5

\* Plan.describe: get_duration() is asked of the root and, through it and
\* through _print_recursive, of every node below it
Describe ==
    /\ mainpc = "idle"
    /\ estimates' = [p \in Paths(root) |-> get_duration(NodeAt(root, p), p)]
    /\ UNCHANGED <<root, slurm_args, descs, job, next_id, submitted, all_jobs, walks,
                   submits, mainpc, wst, werr, raised_log, wait_result, job_state,
                   duration, submit_result, ctor_in, made>>

InitDur == InitPlan(MaxDurNodes, {"ARGS", "RAW"})

\* the plan's only Plan.submit call
FirstSubmit == submits = 0 /\ Submit

NextDur ==
    \/ Describe
    \/ FirstSubmit

SpecDur == InitDur /\ [][NextDur]_vars

\* the seconds of the time budgets '01:00:00', '45:00' and '2-12:00:00'
BudgetSeconds == [ARGS |-> 3600, RAW |-> 2700, RAW_NESTED |-> 216000]

Described == DOMAIN estimates # {}

\* the sum of the estimates of the first n children of the node at p
RECURSIVE SumOfKids(_, _)
SumOfKids(p, n) == IF n = 0 THEN 0 ELSE SumOfKids(p, n - 1) + estimates[p \o <<n>>]

\* the largest number of a non-empty set
Largest(S) == CHOOSE v \in S : \A w \in S : v >= w

\* C12: the estimated duration is the bottom-up value: a Step yields its
\* parsed duration, a Chain the sum of its children's estimates, a Parallel
\* the maximum of its children's estimates, an empty Chain or Parallel zero,
\* and it is never negative.
C12_DurationBottomUp ==
    Described =>
        \A p \in Paths(root) :
            LET node == NodeAt(root, p)
                n == Len(node.nodes)
            IN /\ estimates[p] >= 0
               /\ node.type = "Step" => estimates[p] = BudgetSeconds[slurm_args[p]]
               /\ node.type = "Chain" => estimates[p] = SumOfKids(p, n)
               /\ (node.type = "Parallel" /\ n = 0) => estimates[p] = 0
               /\ (node.type = "Parallel" /\ n > 0) =>
                     estimates[p] = Largest({ estimates[p \o <<i>>] : i \in 1..n })

\* a Chain of a Step and a Parallel of two Steps with different budgets
C12_Witness ==
    /\ Described
    /\ root.type = "Chain"
    /\ Len(root.nodes) = 2
    /\ root.nodes[1].type = "Step"
    /\ root.nodes[2].type = "Parallel"
    /\ Len(root.nodes[2].nodes) = 2
    /\ estimates[<<1>>] = 2700
    /\ estimates[<<2, 1>>] = 2700
    /\ estimates[<<2, 2>>] = 3600
    /\ estimates[<<2>>] = 3600
    /\ estimates[<<>>] = 6300

\* the Step whose job is j
StepOfJob(j) == (CHOOSE s \in Range(submitted) : s.job_id = j).step

\* when job j ends if every job starts as soon as the jobs it depends on have
\* ended and runs for its Step's duration
RECURSIVE FinishTime(_)
FinishTime(j) ==
    duration[StepOfJob(j)] + Largest({0} \cup { FinishTime(k) : k \in DirectDeps(j) })

\* C11: the root's estimated duration equals the weight of the longest path
\* in the job dependency graph that Plan.submit produces for the tree, each
\* job weighted by its Step's parsed duration.
C11_EstimateIsLongestPath ==
    (Described /\ submits > 0) =>
        estimates[<<>>] =
            Largest({0} \cup { FinishTime(s.job_id) :
                                  s \in { r \in Range(submitted) : r.call = submits } })

(***************************************************************************)
(* Additional parameters.  SpecExt: plans whose Steps use the SlurmArgs    *)
(* ARGS_EXT and ARGS_DEP, submitted once.                                  *)
(***************************************************************************)
\* largest number of nodes of a tree under SpecExt
MaxExtNodes == 4

InitExt == InitPlan(MaxExtNodes, ExtNames)

NextExt == FirstSubmit

SpecExt == InitExt /\ [][NextExt]_vars

\* the payload has the additional parameter k with value v
Carries(params, k, v) ==
    /\ params.has_additional
    /\ k \in DOMAIN params.additional
    /\ params.additional[k] = v

\* C15: the entries of a resource request's additional_params appear with
\* their values, unmodified, in the payload the scheduler receives for the
\* Step, alongside the fields derived from the request, whether or not the
\* Step has predecessors, an entry named "dependency" included.
C15_AdditionalParamsUnmodified ==
    \A s \in Range(submitted) :
        LET d == InitDescs[slurm_args[s.step]]
        IN /\ \A k \in DOMAIN d.additional : Carries(s.params, k, d.additional[k])
           /\ \A k \in DOMAIN d.fields \ DOMAIN d.additional :
                 Carries(s.params, k, d.fields[k])

(***************************************************************************)
(* The executor raises.  SpecFail: plans of SlurmArgs Steps on which       *)
(* Plan.submit is called up to MaxSubmits times, and in any of the calls   *)
(* executor.update_parameters or executor.submit may raise for one Step.   *)
(***************************************************************************)
\* largest number of nodes of a tree under SpecFail
MaxFailNodes == 4

\* a Plan.submit call in which the executor raises for the k-th Step it is
\* given
SubmitFails ==
    \E k \in 1..Cardinality(StepPaths(root)) : SubmitCall(k)

InitFail == InitPlan(MaxFailNodes, {"ARGS"})

NextFail ==
    \/ Submit
    \/ SubmitFails

SpecFail == InitFail /\ [][NextFail]_vars

\* C19: when the executor fails while a Step is being submitted, Plan.submit
\* passes the failure on to the caller without retrying and makes no further
\* executor calls; the Steps earlier in tree order keep the jobs they were
\* assigned, and the failing Step and all Steps later in tree order still
\* have an empty job slot.
C19_FailureLeavesLaterStepsEmpty ==
    submit_result.fail_at > 0 =>
        LET order == TreeOrder(root, <<>>)
            k == submit_result.fail_at
        IN /\ submit_result.raised
           /\ submit_result.calls = k
           /\ Len(LastCall) = k - 1
           /\ \A i \in 1..(k - 1) : job[order[i]] = LastCall[i].job_id
           /\ \A i \in k..Len(order) : job[order[i]] = None

====
